---- MODULE Spec2Model ----
(***************************************************************************)
(* Fleet health collection: the CSV collector                              *)
(* (updated_metrics_collector.py, MultiServerMetricsCollector) and the     *)
(* JSON health checker (monitering3.py / monitering2.py,                   *)
(* RemoteServerHealthChecker).                                             *)
(*                                                                         *)
(* A Python str is a sequence of tokens; the token "\n" is a line break    *)
(* and " " a blank.  A Python dict is a function whose DOMAIN is its key   *)
(* set.  Python None is the value None below, which no stdout equals.      *)
(* datetime.now().isoformat() in the task of host h is Now(h): every task  *)
(* reads the clock at its own time.                                        *)
(*                                                                         *)
(* Spec is a whole run: the main thread, the thread pool and one task per  *)
(* host record, a task's probes (which touch only its own session and      *)
(* dict) taken as one step.  SpecPipeline is one host's pipeline taken     *)
(* command by command.  SpecStartup is a run from the reading of the       *)
(* credentials file on.                                                    *)
(***************************************************************************)
EXTENDS Integers, Sequences, FiniteSets, TLC

VARIABLES
    prog,         \* which program runs: "csv", "json" (monitering3), "json2"
    creds,        \* per host: the password and key_filename its task holds
    login,        \* per host: the credential client.connect was called
                  \*   with, <<keyword, value>> (None before the call)
    servers,      \* the credentials file as loaded: state "unread",
                  \*   "unreadable" or "loaded", and the number of rows
    max_workers,  \* ThreadPoolExecutor(max_workers=...)
    mainPc,       \* main thread: "load", "raised" (the constructor
                  \*   raised), "aborted" (main returned early), "submit",
                  \*   "collect", "saving" (inside _save_metrics), "done";
                  \*   "direct" when
                  \*   one host's pipeline is run without a pool
    submitted,    \* number of rows of self.servers already submitted
    queue,        \* the executor's work queue (host indices, FIFO)
    pc,           \* per host task: "unsubmitted", "queued", "start",
                  \*   "connected", "probed", "blocked", "saving",
                  \*   "returned"
    ssh,          \* per host session: "none", "open", "lost" (the
                  \*   connection dropped, the client is not closed yet),
                  \*   "closed"
    attempts,     \* per host: number of client.connect calls made
    conn,         \* per host: how its connect ended ("none" before it)
    metrics,      \* per host: the metrics / health_report dict of its task
    raised,       \* per host: the task's future holds an exception
    answers,      \* per host: how each command run on its session ended
    warned,       \* per host: the commands whose stderr was logged as a
                  \*   warning
    yielded,      \* futures already yielded by as_completed
    received,     \* the dicts handed to _save_metrics / save_report, in order
    output_file,  \* the CSV output file: a sequence of rows
    writing,      \* the files open for writing: [file, host] per open()
    announced,    \* per host: what main printed for it ("none" before)
    collector,    \* the SystemMetricsCollector object and its threads
    monitor       \* the DevOpsMonitoringTool object and its threads

vars == <<prog, servers, creds, login, max_workers, mainPc, submitted, queue,
          pc, ssh, attempts, conn, metrics, raised, answers, warned, yielded,
          received, output_file, writing, announced, collector, monitor>>

\* Number of host records in the credentials file.
NumHosts == 2
\* Largest number of probe commands of one host that do not return normally.
MaxFail == 1
\* max_workers of the JSON checker's pool.
JsonMaxWorkers == 5

Hosts == 1..NumHosts

-----------------------------------------------------------------------------
(* Python str and dict operations *)

NL == "\n"
Blank == " "
ERROR == <<"ERROR">>
None == <<"<None>">>
EmptyStr == <<>>
EmptyDict == <<>>

IsSpace(t) == t \in {NL, Blank}

RECURSIVE LStrip(_)
LStrip(s) == IF s # <<>> /\ IsSpace(Head(s)) THEN LStrip(Tail(s)) ELSE s

RECURSIVE RStrip(_)
RStrip(s) ==
    IF s # <<>> /\ IsSpace(s[Len(s)]) THEN RStrip(SubSeq(s, 1, Len(s) - 1)) ELSE s

\* str.strip()
Strip(s) == RStrip(LStrip(s))

\* str.split('\n'): always at least one piece, '' splits to [''].
RECURSIVE SplitFrom(_, _, _)
SplitFrom(s, i, cur) ==
    IF i > Len(s) THEN <<cur>>
    ELSE IF s[i] = NL THEN <<cur>> \o SplitFrom(s, i + 1, <<>>)
    ELSE SplitFrom(s, i + 1, Append(cur, s[i]))

Split(s) == SplitFrom(s, 1, <<>>)

\* d[k] = v
Put(d, k, v) == [x \in DOMAIN d \cup {k} |-> IF x = k THEN v ELSE d[x]]

\* d.get(k, default)
Get(d, k, default) == IF k \in DOMAIN d THEN d[k] ELSE default

-----------------------------------------------------------------------------
(* What a remote host can answer to one exec_command + read. *)

Ok(s) == [kind |-> "ok", stdout |-> s, stderr |-> <<>>]
\* The command succeeds and also writes to stderr.
OkWarn(s) == [kind |-> "ok", stdout |-> s, stderr |-> <<"warning", NL>>]
Raise == [kind |-> "raise", stdout |-> <<>>, stderr |-> <<>>]
\* exec_command is called without a timeout: stdout.read() may never return.
Hang == [kind |-> "hang", stdout |-> <<>>, stderr |-> <<>>]
\* The connection is lost during the command: exec_command or the read
\* raises, and so does every later exec_command on this client.
Drop == [kind |-> "drop", stdout |-> <<>>, stderr |-> <<>>]

\* Outcomes of client.connect: success, paramiko.AuthenticationException,
\* or another exception: the host cannot be reached (no route, refused),
\* or the connect timed out.
ConnectOutcomes == {"ok", "auth", "unreachable", "timeout"}

-----------------------------------------------------------------------------
(* The CSV collector's probes, in the order collect_server_metrics runs them *)

CsvCommandsDiskFirst ==
    <<"disk_usage", "hostname", "memory_usage", "cpu_usage", "load_average",
      "sar", "base_frequency", "frequencies", "cpu_vendor",
      "time_sync_status", "docker_status">>

CsvCommands ==
    <<"hostname", "memory_usage", "cpu_usage", "disk_usage", "load_average",
      "sar", "base_frequency", "frequencies", "cpu_vendor",
      "time_sync_status", "docker_status">>

\* The stdout a healthy host gives to each command.
CsvCanned ==
    <<  <<"web01", NL>>, <<"42.10">>, <<"7.5%", NL>>, <<"42%", NL>>,
        <<"0.15", NL>>, <<"30", NL, "20", NL, "10", NL>>, <<"2400", NL>>,
        <<"1200", NL, "2400", NL>>, <<"GenuineIntel", NL>>,
        <<Blank, "yes", NL>>, <<"active", NL>>  >>

\* Lines float() accepts, with their values.
NumVal == ("10" :> 10) @@ ("20" :> 20) @@ ("30" :> 30)

IsFloat(line) == Len(line) = 1 /\ line[1] \in DOMAIN NumVal

RECURSIVE SumFloat(_)
SumFloat(lines) ==
    IF lines = <<>> THEN 0 ELSE NumVal[Head(lines)[1]] + SumFloat(Tail(lines))

\* f"{total/n:.2f}%" (no tie occurs for the values of NumVal)
Fixed2(total, n) ==
    LET cents == (total * 200 + n) \div (2 * n)
    IN  <<ToString(cents \div 100), ".", ToString((cents % 100) \div 10),
          ToString(cents % 10), "%">>

run_ssh_command(o) == IF o.kind = "ok" THEN Strip(o.stdout) ELSE ERROR

SarFieldsPartial(m, sar_data) ==
    IF \A i \in 1..Len(sar_data) : IsFloat(sar_data[i])
    THEN Put(Put(Put(m, "cpu_min", Append(sar_data[Len(sar_data)], "%")),
                 "cpu_max", Append(sar_data[1], "%")),
             "cpu_average", Fixed2(SumFloat(sar_data), Len(sar_data)))
    ELSE Put(Put(Put(m, "cpu_min", Append(sar_data[Len(sar_data)], "%")),
                 "cpu_max", Append(sar_data[1], "%")),
             "cpu_average", ERROR)

\* lines 125-130: the three sar statistics, or ERROR for all three when
\* float() raises on some line
SarFields(m, sar_data) ==
    IF \A i \in 1..Len(sar_data) : IsFloat(sar_data[i])
    THEN Put(Put(Put(m, "cpu_min", Append(sar_data[Len(sar_data)], "%")),
                 "cpu_max", Append(sar_data[1], "%")),
             "cpu_average", Fixed2(SumFloat(sar_data), Len(sar_data)))
    ELSE Put(Put(Put(m, "cpu_min", ERROR), "cpu_max", ERROR),
             "cpu_average", ERROR)

FreqFieldsLowestOnly(m, frequencies) ==
    Put(m, "lowest_frequency",
        IF frequencies # <<>> THEN frequencies[1] ELSE ERROR)

\* lines 142-143
FreqFields(m, frequencies) ==
    Put(Put(m, "lowest_frequency",
            IF frequencies # <<>> THEN frequencies[1] ELSE ERROR),
        "highest_frequency",
        IF frequencies # <<>> THEN frequencies[Len(frequencies)] ELSE ERROR)

\* The i-th probe of collect_server_metrics, given what the host answered.
CsvStep(i, m, o) ==
    CASE CsvCommands[i] = "sar" -> SarFields(m, Split(run_ssh_command(o)))
      [] CsvCommands[i] = "frequencies" -> FreqFields(m, Split(run_ssh_command(o)))
      [] OTHER -> Put(m, CsvCommands[i], run_ssh_command(o))

\* Probes i..n in order on one session.
RECURSIVE CsvRun(_, _, _, _)
CsvRun(i, n, m, out) ==
    IF i > n THEN m ELSE CsvRun(i + 1, n, CsvStep(i, m, out[i]), out)

\* datetime.now().isoformat() as read by the task of host h
Now(h) == <<"now", ToString(h)>>

\* lines 71-75
CsvInitMetrics(h) ==
    [timestamp |-> Now(h), ip |-> <<"ip", ToString(h)>>,
     connection_status |-> <<"Failed">>]

\* lines 163-169: both except clauses swallow the exception and fall
\* through to "return metrics"
CsvOnConnectErrorReraise(m, c) == [metrics |-> m, raised |-> TRUE]

CsvOnConnectError(m, c) ==
    [metrics |-> IF c = "auth"
                 THEN Put(m, "connection_status", <<"Authentication Failed">>)
                 ELSE m,
     raised |-> FALSE]

-----------------------------------------------------------------------------
(* The CSV sink *)

headers ==
    <<"Timestamp", "IP", "Hostname", "Memory_Usage", "CPU_Usage", "Disk_Usage",
      "Load_Average", "CPU_Min", "CPU_Max", "CPU_Average", "Base_Frequency",
      "Lowest_Frequency", "Highest_Frequency", "CPU_Vendor",
      "Time_Sync_Status", "Docker_Status", "Connection_Status">>

\* _save_metrics, lines 207-225: the row written for a metrics dict
RowKeys ==
    <<"timestamp", "ip", "hostname", "memory_usage", "cpu_usage", "disk_usage",
      "load_average", "cpu_min", "cpu_max", "cpu_average", "base_frequency",
      "lowest_frequency", "highest_frequency", "cpu_vendor",
      "time_sync_status", "docker_status", "connection_status">>

\* The header row as written by _initialize_output_csv.
HeaderRow == [j \in 1..Len(headers) |-> <<headers[j]>>]

RowOfSwapped(m) ==
    [j \in 1..Len(RowKeys) |->
        Get(m, RowKeys[IF j = 1 THEN 2 ELSE IF j = 2 THEN 1 ELSE j], EmptyStr)]

RowOf(m) == [j \in 1..Len(RowKeys) |-> Get(m, RowKeys[j], EmptyStr)]

-----------------------------------------------------------------------------
(* The JSON health checker's probes, in the order check_server_health runs *)
(* them.  split: the code calls .split('\n') on the command's result.      *)

Probe(sect, key, split) == [sect |-> sect, key |-> key, split |-> split]

services_to_check(p) ==
    IF p = "json2"
    THEN <<"ssh", "nginx", "apache2", "mysql", "postgresql">>
    ELSE <<"ssh", "nginx", "apache2", "mysql", "postgresql", "docker">>

JsonCommands(p) ==
    <<Probe("system", "os", FALSE), Probe("system", "uptime", FALSE),
      Probe("system", "kernel", FALSE), Probe("resources", "disk", TRUE),
      Probe("resources", "memory", TRUE), Probe("resources", "cpu", FALSE),
      Probe("system", "top_processes", TRUE)>>
    \o [i \in 1..Len(services_to_check(p)) |->
            Probe("services", services_to_check(p)[i], FALSE)]
    \o <<Probe("network", "interfaces", FALSE),
         Probe("network", "routes", FALSE)>>

\* The stdout a healthy host gives to the i-th command.
JsonCanned(p, i) ==
    IF JsonCommands(p)[i].split
    THEN <<"Header", NL, JsonCommands(p)[i].key, NL>>
    ELSE <<JsonCommands(p)[i].key, NL>>

\* run_remote_command: the stripped stdout, or None when exec_command or
\* a read raises
run_remote_commandStderrFails(o) ==
    IF o.kind = "ok" /\ Strip(o.stderr) = EmptyStr THEN Strip(o.stdout) ELSE None

run_remote_command(o) == IF o.kind = "ok" THEN Strip(o.stdout) ELSE None

\* lines 99-102: "if error: self.logger.warning(...)" on the stripped
\* stderr.  The CSV collector drops the stderr channel unread (line 87).
LogsStderr(p, o) == p # "csv" /\ o.kind = "ok" /\ Strip(o.stderr) # EmptyStr

\* check_server_health, lines 116-123
JsonInitReport(h) ==
    [timestamp |-> Now(h), hostname |-> <<"ip", ToString(h)>>,
     system |-> EmptyDict, resources |-> EmptyDict, services |-> EmptyDict,
     network |-> EmptyDict]

\* The i-th probe of check_server_health: the report after it, or exc when
\* .split is called on None (AttributeError).
JsonStep(p, i, r, o) ==
    LET c == JsonCommands(p)[i]
        v == run_remote_command(o)
        \* line 152: health_report['services'] = {} before the first service
        base == IF c.sect = "services" /\ c.key = services_to_check(p)[1]
                THEN Put(r, "services", EmptyDict) ELSE r
    IN  IF c.split /\ v = None
        THEN [report |-> r, exc |-> TRUE]
        ELSE [report |-> Put(base, c.sect,
                             Put(base[c.sect], c.key,
                                 IF c.split THEN Split(v) ELSE v)),
              exc |-> FALSE]

\* Probes i..n in order on one session, stopping at the first exception.
\* ran: the number of commands executed.
RECURSIVE JsonRun(_, _, _, _, _)
JsonRun(p, i, n, r, out) ==
    IF i > n THEN [report |-> r, exc |-> FALSE, ran |-> n]
    ELSE LET s == JsonStep(p, i, r, out[i])
         IN  IF s.exc THEN [report |-> r, exc |-> TRUE, ran |-> i]
             ELSE JsonRun(p, i + 1, n, s.report, out)

\* lines 166-169: except Exception as e: health_report['error'] = str(e)
JsonOnException(r, e) == Put(r, "error", <<e>>)

\* lines 170-172: finally: if client: client.close()
JsonFinallyLeak(s) == s

JsonFinally(s) == IF s \in {"open", "lost"} THEN "closed" ELSE s

-----------------------------------------------------------------------------
(* Both programs *)

IsCsv == prog = "csv"

NumCommands(p) == IF p = "csv" THEN Len(CsvCommands) ELSE Len(JsonCommands(p))

Canned(p, i) == IF p = "csv" THEN CsvCanned[i] ELSE JsonCanned(p, i)

\* Every command answers normally.
AllOk(p) == [i \in 1..NumCommands(p) |-> Ok(Canned(p, i))]

\* As AllOk, but command k answers o.
With(p, k, o) == [AllOk(p) EXCEPT ![k] = o]

\* Index of the first command that never returns, 0 if none.
FirstHang(out) ==
    IF \E i \in DOMAIN out : out[i].kind = "hang"
    THEN CHOOSE i \in DOMAIN out :
            out[i].kind = "hang" /\ \A j \in 1..(i - 1) : out[j].kind # "hang"
    ELSE 0

\* The credential fields of a task.
Credentials(pw, k) == [password |-> pw, key_filename |-> k]

\* Python truth value of a str-or-None
Truthy(v) == v # None /\ v # EmptyStr

\* The credential keyword client.connect is called with.  JSON checkers:
\* "if self.key_filename:" key_filename, else password.  CSV collector:
\* always password.
ConnectArgsPasswordFirst(p, c) ==
    IF p # "csv" /\ ~Truthy(c.password) THEN <<"key_filename", c.key_filename>>
    ELSE <<"password", c.password>>

ConnectArgs(p, c) ==
    IF p # "csv" /\ Truthy(c.key_filename) THEN <<"key_filename", c.key_filename>>
    ELSE <<"password", c.password>>

\* One connection attempt: client.connect is called once, and what it
\* raises is passed on (monitering3.py lines 62-86; CSV line 81).
connectRetrying(c) == [result |-> c, calls |-> IF c = "ok" THEN 1 ELSE 2]

connect(c) == [result |-> c, calls |-> 1]

\* The dict a task starts from.
InitDictNumbered(p, h) ==
    Put(IF p = "csv" THEN CsvInitMetrics(h) ELSE JsonInitReport(h),
        "sequence", <<ToString(Cardinality({g \in Hosts : attempts[g] > 0}))>>)

InitDict(p, h) == IF p = "csv" THEN CsvInitMetrics(h) ELSE JsonInitReport(h)

\* A failed connect.  CSV: lines 163-169.  JSON: connect re-raises (line
\* 86), check_server_health records the error (lines 166-169).
OnConnectErrorEscapes(p, m, c) == [metrics |-> m, raised |-> TRUE]

OnConnectError(p, m, c) ==
    IF p = "csv" THEN CsvOnConnectError(m, c)
    ELSE [metrics |-> JsonOnException(m, c), raised |-> FALSE]

\* A successful connect.  CSV: line 82.
OnConnected(p, m) ==
    IF p = "csv" THEN Put(m, "connection_status", <<"Success">>) ELSE m

\* All probes of a connected host on its session, given what the host
\* answers to each command: the dict afterwards, the number of commands
\* executed, and blocked when a command never returned.
Pipeline(p, m, out) ==
    LET j == FirstHang(out)
        n == IF j > 0 THEN j - 1 ELSE NumCommands(p)
    IN  IF p = "csv"
        THEN [metrics |-> CsvRun(1, n, m, out),
              ran |-> IF j > 0 THEN j ELSE n, blocked |-> j > 0]
        ELSE LET r == JsonRun(p, 1, n, m, out)
             IN  IF r.exc
                 THEN [metrics |-> JsonOnException(r.report, "AttributeError"),
                       ran |-> r.ran, blocked |-> FALSE]
                 ELSE [metrics |-> r.report,
                       ran |-> IF j > 0 THEN j ELSE n, blocked |-> j > 0]

\* How a command ended: "ok" for the healthy answer, "warn" for the
\* healthy stdout with something on stderr, "odd" for any other stdout,
\* "raise", "hang", "drop".
Label(p, i, o) ==
    IF o.kind # "ok" THEN o.kind
    ELSE IF o.stdout # Canned(p, i) THEN "odd"
    ELSE IF o.stderr = EmptyStr THEN "ok" ELSE "warn"

\* What the hosts answer in a whole run: all well, the disk probe or the
\* last probe raising, the disk probe never returning.
SchedVectors(p) ==
    {AllOk(p), With(p, 4, Raise), With(p, NumCommands(p), Raise),
     With(p, 4, Hang)}

-----------------------------------------------------------------------------
(* The run: main thread, ThreadPoolExecutor, one task per host record *)

\* Tasks a worker thread is executing.
Running ==
    {h \in Hosts : pc[h] \in {"connected", "probed", "blocked", "saving"}}

OpenSessions == {h \in Hosts : ssh[h] = "open"}

\* ThreadPoolExecutor starts at most max_workers threads, each running one
\* work item at a time.
WorkerAvailableUnbounded == TRUE

WorkerAvailable == Cardinality(Running) < max_workers

\* The file a report of host h is written to.  CSV: self.output_file, one
\* file for the run.  JSON: reports/health_report_{hostname}_{time}.json,
\* hostname being the ip of the host record; host records have distinct
\* addresses.
ReportFileShared(p, h) == <<"reports/health_report.json">>

ReportFile(p, h) ==
    IF p = "csv" THEN <<"multi_server_metrics.csv">>
    ELSE <<"reports/health_report_", "ip", ToString(h), ".json">>

\* open(file, mode) of a report write for host h
Open(p, h) == writing \cup {[file |-> ReportFile(p, h), host |-> h]}

\* the end of the with block of that write
Close(p, h) == writing \ {[file |-> ReportFile(p, h), host |-> h]}

\* process_server calls save_report in the worker thread (JSON); the CSV
\* task only returns its dict.
WorkerSave(m) == IF IsCsv THEN received ELSE Append(received, m)

\* Where a task goes when its pipeline has ended: into save_report (JSON)
\* or straight to its return (CSV).
AfterPipeline == IF IsCsv THEN "returned" ELSE "saving"

\* The credentials file read into n host records.
Loaded(n) == [state |-> "loaded", rows |-> n]

Init ==
    /\ prog \in {"csv", "json"}
    /\ servers = Loaded(NumHosts)
    \* collect_all_metrics passes row['password']; process_server passes
    \* server_details['password'] and no key_filename
    /\ creds = [h \in Hosts |-> Credentials(<<"pw", ToString(h)>>, None)]
    /\ login = [h \in Hosts |-> None]
    /\ max_workers \in (IF prog = "csv" THEN 1..NumHosts ELSE {JsonMaxWorkers})
    /\ mainPc = "submit"
    /\ submitted = 0
    /\ queue = <<>>
    /\ pc = [h \in Hosts |-> "unsubmitted"]
    /\ ssh = [h \in Hosts |-> "none"]
    /\ attempts = [h \in Hosts |-> 0]
    /\ conn = [h \in Hosts |-> "none"]
    /\ metrics = [h \in Hosts |-> EmptyDict]
    /\ raised = [h \in Hosts |-> FALSE]
    /\ answers = [h \in Hosts |-> <<>>]
    /\ warned = [h \in Hosts |-> {}]
    /\ yielded = {}
    /\ received = <<>>
    \* __init__ -> _initialize_output_csv: the file is truncated and the
    \* header row written
    /\ output_file = IF prog = "csv" THEN <<HeaderRow>> ELSE <<>>
    /\ writing = {}
    /\ monitor = [mainPc |-> "absent"]
    /\ collector = [mainPc |-> "absent"]
    /\ announced = [h \in Hosts |-> "none"]

\* executor.submit for the next row of self.servers
Submit ==
    /\ mainPc = "submit"
    /\ submitted < servers.rows
    /\ submitted' = submitted + 1
    /\ queue' = Append(queue, submitted + 1)
    /\ pc' = [pc EXCEPT ![submitted + 1] = "queued"]
    /\ mainPc' = IF submitted + 1 = servers.rows THEN "collect" ELSE "submit"
    /\ UNCHANGED <<prog, servers, creds, warned, login, max_workers, ssh,
                   attempts, conn, metrics, raised, answers, yielded,
                   received, output_file, writing, announced, collector,
                   monitor>>

\* A free worker takes the oldest work item and runs the task up to the
\* end of ssh.connect.
StartTask(h) ==
    /\ queue # <<>>
    /\ h = Head(queue)
    /\ WorkerAvailable
    /\ queue' = Tail(queue)
    /\ login' = [login EXCEPT ![h] = ConnectArgs(prog, creds[h])]
    /\ \E c \in ConnectOutcomes :
      /\ attempts' = [attempts EXCEPT ![h] = @ + connect(c).calls]
      /\ conn' = [conn EXCEPT ![h] = connect(c).result]
      /\ IF c = "ok"
         THEN /\ ssh' = [ssh EXCEPT ![h] = "open"]
              /\ metrics' = [metrics EXCEPT ![h] =
                                 OnConnected(prog, InitDict(prog, h))]
              /\ pc' = [pc EXCEPT ![h] = "connected"]
              /\ UNCHANGED <<raised, received, writing>>
         ELSE LET e == OnConnectError(prog, InitDict(prog, h), c)
              IN  /\ metrics' = [metrics EXCEPT ![h] = e.metrics]
                  /\ raised' = [raised EXCEPT ![h] = e.raised]
                  /\ ssh' = IF IsCsv THEN ssh
                            ELSE [ssh EXCEPT ![h] = JsonFinally(@)]
                  /\ received' = IF e.raised THEN received
                                 ELSE WorkerSave(e.metrics)
                  /\ writing' = IF e.raised \/ IsCsv THEN writing
                                ELSE Open(prog, h)
                  /\ pc' = [pc EXCEPT ![h] = IF e.raised THEN "returned"
                                             ELSE AfterPipeline]
    /\ UNCHANGED <<prog, servers, creds, warned, max_workers, mainPc,
                   submitted, answers, yielded, output_file, announced,
                   collector, monitor>>

\* The probes of a connected host, all on its session.
RunProbes(h) ==
    /\ pc[h] = "connected"
    /\ \E out \in SchedVectors(prog) :
        LET r == Pipeline(prog, metrics[h], out)
        IN  /\ metrics' = [metrics EXCEPT ![h] = r.metrics]
            /\ answers' = [answers EXCEPT ![h] =
                                [i \in 1..r.ran |-> Label(prog, i, out[i])]]
            /\ warned' = [warned EXCEPT ![h] =
                                {i \in 1..r.ran : LogsStderr(prog, out[i])}]
            /\ pc' = [pc EXCEPT ![h] = IF r.blocked THEN "blocked" ELSE "probed"]
    /\ UNCHANGED <<prog, servers, creds, login, max_workers, mainPc,
                   submitted, queue, ssh, attempts, conn, raised, yielded,
                   received, output_file, writing, announced, collector,
                   monitor>>

\* CSV: ssh.close(); return metrics (lines 160-161).  JSON: the finally
\* clause, then process_server calls save_report, which opens the report
\* file of the host.
Finish(h) ==
    /\ pc[h] = "probed"
    /\ ssh' = [ssh EXCEPT ![h] = IF IsCsv THEN "closed" ELSE JsonFinally(@)]
    /\ received' = WorkerSave(metrics[h])
    /\ writing' = IF IsCsv THEN writing ELSE Open(prog, h)
    /\ pc' = [pc EXCEPT ![h] = AfterPipeline]
    /\ UNCHANGED <<prog, servers, creds, warned, login, max_workers, mainPc,
                   submitted, queue, attempts, conn, metrics, raised,
                   answers, yielded, output_file, announced, collector,
                   monitor>>

\* JSON: json.dump has written the report, the with block closes the file
\* and process_server returns the report.
SaveReport(h) ==
    /\ pc[h] = "saving"
    /\ writing' = Close(prog, h)
    /\ pc' = [pc EXCEPT ![h] = "returned"]
    /\ UNCHANGED <<prog, servers, creds, warned, login, max_workers, mainPc,
                   submitted, queue, ssh, attempts, conn, metrics, raised,
                   answers, yielded, received, output_file, announced,
                   collector, monitor>>

FutureDoneOnSubmit(h) == pc[h] # "unsubmitted"

\* as_completed yields a future when its task has returned or raised.
FutureDone(h) == pc[h] = "returned"

\* What process_server returns for host h: the health report, or None
\* when an exception reached its except clause (monitering3.py lines
\* 198-215).
process_server(h) == IF raised[h] THEN None ELSE metrics[h]

\* main, lines 259-263: "if result:" prints "Health check completed for
\* ...", else "Health check failed for ...".
Announce(result) == IF Truthy(result) THEN "completed" ELSE "failed"

\* as_completed yields a finished future not yielded before.  CSV:
\* future.result() and the call of _save_metrics, which opens the output
\* file in append mode.  JSON: main prints.
Collect(h) ==
    /\ mainPc = "collect"
    /\ FutureDone(h)
    /\ h \notin yielded
    /\ yielded' = yielded \cup {h}
    /\ IF IsCsv /\ ~raised[h]
       THEN /\ received' = Append(received, metrics[h])
            /\ writing' = Open(prog, h)
            /\ mainPc' = "saving"
       ELSE UNCHANGED <<received, writing, mainPc>>
    /\ announced' = IF IsCsv THEN announced
                    ELSE [announced EXCEPT ![h] = Announce(process_server(h))]
    /\ UNCHANGED <<prog, servers, creds, warned, login, max_workers,
                   submitted, queue, pc, ssh, attempts, conn, metrics,
                   raised, answers, output_file, collector, monitor>>

\* CSV, main thread inside _save_metrics: the row is appended unless the
\* write fails (then the error is only logged); the file is closed and
\* the as_completed loop goes on.
SaveMetrics(h) ==
    /\ mainPc = "saving"
    /\ [file |-> ReportFile(prog, h), host |-> h] \in writing
    /\ \E written \in BOOLEAN :
         output_file' = IF written
                        THEN Append(output_file, RowOf(metrics[h]))
                        ELSE output_file
    /\ writing' = Close(prog, h)
    /\ mainPc' = "collect"
    /\ UNCHANGED <<prog, servers, creds, warned, login, max_workers,
                   submitted, queue, pc, ssh, attempts, conn, metrics,
                   raised, answers, yielded, received, announced, collector,
                   monitor>>

\* as_completed is exhausted; the with block shuts the executor down.
Done ==
    /\ mainPc = "collect"
    /\ yielded = 1..servers.rows
    /\ mainPc' = "done"
    /\ UNCHANGED <<prog, servers, creds, warned, login, max_workers,
                   submitted, queue, pc, ssh, attempts, conn, metrics,
                   raised, answers, yielded, received, output_file, writing,
                   announced, collector, monitor>>

Next ==
    \/ Submit
    \/ \E h \in Hosts : StartTask(h)
    \/ \E h \in Hosts : RunProbes(h)
    \/ \E h \in Hosts : Finish(h)
    \/ \E h \in Hosts : SaveReport(h)
    \/ \E h \in Hosts : Collect(h)
    \/ \E h \in Hosts : SaveMetrics(h)
    \/ Done

Spec == Init /\ [][Next]_vars

-----------------------------------------------------------------------------
(* The run from the start of main: the credentials file is read first.    *)
(* updated_metrics_collector.py: main, __init__; monitering3.py: main,    *)
(* read_servers_from_csv.                                                  *)

\* An output file left by an earlier run.
PreviousOutput == <<HeaderRow, [j \in 1..Len(headers) |-> <<"old">>]>>

\* What reading servers.csv can give: an exception (no such file, no
\* permission, an empty file), or a table of 0..NumHosts rows.
LoadOutcomes ==
    {[state |-> "unreadable", rows |-> 0]} \cup {Loaded(n) : n \in 0..NumHosts}

StartupInit ==
    /\ prog \in {"csv", "json"}
    /\ servers = [state |-> "unread", rows |-> 0]
    /\ creds = [h \in Hosts |-> Credentials(<<"pw", ToString(h)>>, None)]
    /\ login = [h \in Hosts |-> None]
    /\ max_workers \in (IF prog = "csv" THEN 1..NumHosts ELSE {JsonMaxWorkers})
    /\ mainPc = "load"
    /\ submitted = 0
    /\ queue = <<>>
    /\ pc = [h \in Hosts |-> "unsubmitted"]
    /\ ssh = [h \in Hosts |-> "none"]
    /\ attempts = [h \in Hosts |-> 0]
    /\ conn = [h \in Hosts |-> "none"]
    /\ metrics = [h \in Hosts |-> EmptyDict]
    /\ raised = [h \in Hosts |-> FALSE]
    /\ answers = [h \in Hosts |-> <<>>]
    /\ warned = [h \in Hosts |-> {}]
    /\ yielded = {}
    /\ received = <<>>
    /\ output_file \in (IF prog = "csv" THEN {<<>>, PreviousOutput} ELSE {<<>>})
    /\ writing = {}
    /\ monitor = [mainPc |-> "absent"]
    /\ collector = [mainPc |-> "absent"]
    /\ announced = [h \in Hosts |-> "none"]

\* CSV: __init__ reads the file with pd.read_csv; an exception is logged
\* and raised again (lines 29-33), otherwise _initialize_output_csv
\* truncates the output file and writes the header (line 39), and
\* collect_all_metrics starts, whatever the number of rows.
\* JSON: read_servers_from_csv returns the rows, or [] on any exception;
\* main prints and returns when the list is empty (lines 243-245).
LoadCredentials ==
    /\ mainPc = "load"
    /\ \E o \in LoadOutcomes :
        /\ servers' = o
        /\ IF IsCsv
           THEN IF o.state = "unreadable"
                THEN mainPc' = "raised" /\ UNCHANGED output_file
                ELSE /\ output_file' = <<HeaderRow>>
                     /\ mainPc' = IF o.rows = 0 THEN "collect" ELSE "submit"
           ELSE /\ mainPc' = IF o.rows = 0 THEN "aborted" ELSE "submit"
                /\ UNCHANGED output_file
    /\ UNCHANGED <<prog, creds, login, warned, max_workers, submitted, queue,
                   pc, ssh, attempts, conn, metrics, raised, answers,
                   yielded, received, writing, announced, collector,
                   monitor>>

StartupNext == LoadCredentials \/ Next

SpecStartup == StartupInit /\ [][StartupNext]_vars

-----------------------------------------------------------------------------
(* One host's pipeline, command by command: collect_server_metrics (csv), *)
(* check_server_health of monitering3.py (json) and of monitering2.py     *)
(* (json2), called directly for host 1.                                    *)

TheHost == 1

\* What a host can answer to command i: the healthy stdout, the same
\* with a message on stderr, nothing on stdout, an exception, no answer
\* at all, the loss of the connection;
\* for sar also a line float() rejects.
Outcomes(p, i) ==
    {Ok(Canned(p, i)), OkWarn(Canned(p, i)), Ok(EmptyStr), Raise, Hang, Drop}
    \cup (IF p = "csv" /\ CsvCommands[i] = "sar"
          THEN {Ok(<<"30", NL, "n/a", NL>>)} ELSE {})

\* Commands so far that did not give the healthy answer.
Unhealthy(h) == {i \in 1..Len(answers[h]) : answers[h][i] # "ok"}

PipeInit ==
    /\ prog \in {"csv", "json", "json2"}
    /\ servers = Loaded(1)
    \* RemoteServerHealthChecker(hostname, username, password=None,
    \* key_filename=None); collect_server_metrics(ip, username, password)
    /\ creds \in [Hosts -> IF prog = "csv"
                           THEN {Credentials(<<"pw">>, None)}
                           ELSE {Credentials(pw, k) :
                                    pw \in {None, <<"pw">>},
                                    k \in {None, EmptyStr, <<"id_rsa">>}}]
    /\ \A h \in Hosts \ {TheHost} : creds[h] = creds[TheHost]
    /\ login = [h \in Hosts |-> None]
    /\ max_workers = 1
    /\ mainPc = "direct"
    /\ submitted = 0
    /\ queue = <<>>
    /\ pc = [h \in Hosts |-> IF h = TheHost THEN "start" ELSE "unsubmitted"]
    /\ ssh = [h \in Hosts |-> "none"]
    /\ attempts = [h \in Hosts |-> 0]
    /\ conn = [h \in Hosts |-> "none"]
    /\ metrics = [h \in Hosts |-> EmptyDict]
    /\ raised = [h \in Hosts |-> FALSE]
    /\ answers = [h \in Hosts |-> <<>>]
    /\ warned = [h \in Hosts |-> {}]
    /\ yielded = {}
    /\ received = <<>>
    /\ output_file = <<>>
    /\ writing = {}
    /\ monitor = [mainPc |-> "absent"]
    /\ collector = [mainPc |-> "absent"]
    /\ announced = [h \in Hosts |-> "none"]

\* The dict is initialised and the connection attempted.
PConnect ==
    /\ pc[TheHost] = "start"
    /\ login' = [login EXCEPT ![TheHost] = ConnectArgs(prog, creds[TheHost])]
    /\ \E c \in ConnectOutcomes :
      /\ attempts' = [attempts EXCEPT ![TheHost] = @ + connect(c).calls]
      /\ conn' = [conn EXCEPT ![TheHost] = connect(c).result]
      /\ IF c = "ok"
         THEN /\ ssh' = [ssh EXCEPT ![TheHost] = "open"]
              /\ metrics' = [metrics EXCEPT ![TheHost] =
                                 OnConnected(prog, InitDict(prog, TheHost))]
              /\ pc' = [pc EXCEPT ![TheHost] = "connected"]
              /\ UNCHANGED raised
         ELSE LET e == OnConnectError(prog, InitDict(prog, TheHost), c)
              IN  /\ metrics' = [metrics EXCEPT ![TheHost] = e.metrics]
                  /\ raised' = [raised EXCEPT ![TheHost] = e.raised]
                  /\ ssh' = IF IsCsv THEN ssh
                            ELSE [ssh EXCEPT ![TheHost] = JsonFinally(@)]
                  /\ pc' = [pc EXCEPT ![TheHost] = "returned"]
    /\ UNCHANGED <<prog, servers, creds, warned, max_workers, mainPc,
                   submitted, queue, answers, yielded, received, output_file,
                   writing, announced, collector, monitor>>

\* The next probe command on the session of the host.  On a lost
\* connection exec_command can only raise.
PProbe ==
    /\ pc[TheHost] = "connected"
    /\ LET i == Len(answers[TheHost]) + 1
           last == i = NumCommands(prog)
       IN  \E o \in (IF ssh[TheHost] = "lost" THEN {Raise}
                     ELSE Outcomes(prog, i)) :
            /\ (ssh[TheHost] = "open" /\ Label(prog, i, o) # "ok")
                    => Cardinality(Unhealthy(TheHost)) < MaxFail
            /\ answers' = [answers EXCEPT ![TheHost] = Append(@, Label(prog, i, o))]
            /\ warned' = [warned EXCEPT ![TheHost] =
                            IF LogsStderr(prog, o) THEN @ \cup {i} ELSE @]
            /\ ssh' = IF o.kind = "drop" THEN [ssh EXCEPT ![TheHost] = "lost"]
                      ELSE ssh
            /\ IF o.kind = "hang"
               THEN /\ pc' = [pc EXCEPT ![TheHost] = "blocked"]
                    /\ UNCHANGED metrics
               ELSE IF IsCsv
               THEN /\ metrics' = [metrics EXCEPT ![TheHost] = CsvStep(i, @, o)]
                    /\ pc' = [pc EXCEPT ![TheHost] =
                                 IF last THEN "probed" ELSE "connected"]
               ELSE LET s == JsonStep(prog, i, metrics[TheHost], o)
                    IN  /\ metrics' = [metrics EXCEPT ![TheHost] =
                                IF s.exc
                                THEN JsonOnException(s.report, "AttributeError")
                                ELSE s.report]
                        /\ pc' = [pc EXCEPT ![TheHost] =
                                IF s.exc \/ last THEN "probed" ELSE "connected"]
    /\ UNCHANGED <<prog, servers, creds, login, max_workers, mainPc,
                   submitted, queue, attempts, conn, raised, yielded,
                   received, output_file, writing, announced, collector,
                   monitor>>

\* CSV: ssh.close(); return metrics.  JSON: the finally clause; the report
\* is returned.
PFinish ==
    /\ pc[TheHost] = "probed"
    /\ ssh' = [ssh EXCEPT ![TheHost] = IF IsCsv THEN "closed" ELSE JsonFinally(@)]
    /\ pc' = [pc EXCEPT ![TheHost] = "returned"]
    /\ UNCHANGED <<prog, servers, creds, warned, login, max_workers, mainPc,
                   submitted, queue, attempts, conn, metrics, raised,
                   answers, yielded, received, output_file, writing,
                   announced, collector, monitor>>

PipeNext == PConnect \/ PProbe \/ PFinish

SpecPipeline == PipeInit /\ [][PipeNext]_vars

-----------------------------------------------------------------------------
(* system_metrics_collector.py: SystemMetricsCollector.  collect_all_metrics *)
(* runs the five collectors as threads on the one self.metrics dict.  The  *)
(* object is the record "collector": config, metrics, threads (per         *)
(* collector: pc and the outcomes of the statements it has executed),      *)
(* mainPc, started, joined, returned, saved.                               *)

\* The variables of the remote collectors.
remoteVars == <<prog, servers, creds, login, max_workers, mainPc, submitted,
                queue, pc, ssh, attempts, conn, metrics, raised, answers,
                warned, yielded, received, output_file, writing, announced>>

\* lines 274-280, each collector named by its key in config['collectors']
metric_collectors ==
    <<"system", "hardware", "network", "services", "performance">>

Collectors == {metric_collectors[i] : i \in 1..Len(metric_collectors)}

\* lines 55-67
default_config ==
    [collectors |-> [c \in Collectors |-> TRUE],
     advanced_checks |->
        [network_ping_hosts |-> <<"8.8.8.8", "google.com">>,
         services_to_monitor |-> <<"ssh", "docker", "nginx", "mysql">>]]

\* lines 69-78: default_config.update(user_config) replaces top-level
\* entries whole; without a file nothing is merged (user_config empty).
LoadConfig(user_config) ==
    [k \in DOMAIN default_config \cup DOMAIN user_config |->
        IF k \in DOMAIN user_config THEN user_config[k] ELSE default_config[k]]

\* The configuration files of the runs considered: one ping host and one
\* service to monitor; every collector enabled, one disabled, all
\* disabled, or a 'collectors' mapping that lacks the last collector.
UserConfigs ==
    LET checks == [network_ping_hosts |-> <<"8.8.8.8">>,
                   services_to_monitor |-> <<"ssh">>]
        flags == {[c \in Collectors |-> TRUE], [c \in Collectors |-> FALSE]}
                 \cup {[c \in Collectors |-> c # d] : d \in Collectors}
                 \cup {[c \in Collectors \ {"performance"} |-> TRUE]}
    IN  {[collectors |-> f, advanced_checks |-> checks] : f \in flags}

\* lines 36-43
InitialMetrics ==
    [timestamp |-> Now(0), system |-> EmptyDict, hardware |-> EmptyDict,
     network |-> EmptyDict, services |-> EmptyDict,
     performance |-> EmptyDict]

\* One statement of a collector that writes into self.metrics:
\*   "section"  self.metrics[sec] = value
\*   "key"      self.metrics[sec][key] = value
\*   "item"     self.metrics[sec][key][sub] = value
\*   "append"   self.metrics[sec][key].append(value)
\*   "append2"  self.metrics[sec][key][sub].append(value)
\*   "none"     nothing written
Stmt(op, sec, key, sub, value) ==
    [op |-> op, sec |-> sec, key |-> key, sub |-> sub, value |-> value]

Apply(m, s) ==
    CASE s.op = "section" -> Put(m, s.sec, s.value)
      [] s.op = "key" -> Put(m, s.sec, Put(m[s.sec], s.key, s.value))
      [] s.op = "item" ->
            Put(m, s.sec, Put(m[s.sec], s.key, Put(m[s.sec][s.key], s.sub, s.value)))
      [] s.op = "append" ->
            Put(m, s.sec, Put(m[s.sec], s.key, Append(m[s.sec][s.key], s.value)))
      [] s.op = "append2" ->
            Put(m, s.sec,
                Put(m[s.sec], s.key,
                    Put(m[s.sec][s.key], s.sub, Append(m[s.sec][s.key][s.sub], s.value))))
      [] OTHER -> m

\* lines 111-122: the i-th write of the collector, given how its
\* observation ended (o).  One assignment of the whole section.
collect_system_info(cfg, i, o) ==
    Stmt("section", "system", "-", "-",
         [os |-> [name |-> <<"Linux">>, release |-> <<"6.1">>,
                  version |-> <<"#1">>, machine |-> <<"x86_64">>],
          hostname |-> <<"web01">>, uptime |-> <<"up", Blank, "1", Blank, "day">>,
          boot_time |-> <<"boot">>])

\* lines 133-174, one disk partition; a partition whose usage cannot be
\* read is skipped with a warning (lines 170-171)
collect_hardware_metrics(cfg, i, o) ==
    CASE i = 1 -> Stmt("key", "hardware", "memory", "-",
                       [total |-> <<"16">>, available |-> <<"8">>,
                        used |-> <<"8">>, percent |-> <<"50">>])
      [] i = 2 -> Stmt("key", "hardware", "cpu", "-",
                       [physical_cores |-> <<"2">>, total_cores |-> <<"4">>,
                        current_frequency |-> <<"2400">>,
                        min_frequency |-> <<"1200">>,
                        max_frequency |-> <<"2400">>,
                        usage_per_core |-> <<"7.5">>])
      [] i = 3 -> Stmt("key", "hardware", "disk", "-", <<>>)
      [] OTHER -> IF o = "ok"
                  THEN Stmt("append", "hardware", "disk", "-",
                            [device |-> <<"/dev/sda1">>, mountpoint |-> <<"/">>,
                             fstype |-> <<"ext4">>, total_size |-> <<"100">>,
                             used |-> <<"42">>, free |-> <<"58">>,
                             percent |-> <<"42">>])
                  ELSE Stmt("none", "hardware", "-", "-", <<>>)

\* lines 183-215, one network interface; a ping that fails or raises
\* records False (lines 207-212)
collect_network_metrics(cfg, i, o) ==
    CASE i = 1 -> Stmt("key", "network", "interfaces", "-", EmptyDict)
      [] i = 2 -> Stmt("item", "network", "interfaces", "lo",
                       <<[family |-> <<"AF_INET">>, address |-> <<"127.0.0.1">>,
                          netmask |-> <<"255.0.0.0">>]>>)
      [] i = 3 -> Stmt("key", "network", "connectivity", "-", EmptyDict)
      [] OTHER -> Stmt("item", "network", "connectivity",
                       cfg.advanced_checks.network_ping_hosts[i - 3],
                       IF o = "ok" THEN <<"True">> ELSE <<"False">>)

collect_service_statusIntoSystem(cfg, i, o) ==
    IF i = 1 THEN Stmt("section", "services", "-", "-", EmptyDict)
    ELSE Stmt("key", "system", cfg.advanced_checks.services_to_monitor[i - 1],
              "-", IF o = "ok" THEN <<"active">> ELSE None)

\* lines 224-232; _run_command gives None when the command times out
collect_service_status(cfg, i, o) ==
    IF i = 1 THEN Stmt("section", "services", "-", "-", EmptyDict)
    ELSE Stmt("key", "services", cfg.advanced_checks.services_to_monitor[i - 1],
              "-", IF o = "ok" THEN <<"active">> ELSE None)

\* lines 241-268, one process among the top consumers
collect_performance_metrics(cfg, i, o) ==
    CASE i = 1 -> Stmt("key", "performance", "load_average", "-",
                       [1_min |-> <<"0.15">>, 5_min |-> <<"0.10">>,
                        15_min |-> <<"0.05">>])
      [] i = 2 -> Stmt("key", "performance", "processes", "-",
                       [total |-> <<"120">>, running |-> <<"1">>,
                        top_cpu_consumers |-> <<>>])
      [] OTHER -> Stmt("append2", "performance", "processes",
                       "top_cpu_consumers",
                       [pid |-> <<"1">>, name |-> <<"init">>,
                        cpu_percent |-> <<"0.0">>])

\* The i-th write of collector c.
Statement(c, cfg, i, o) ==
    CASE c = "system" -> collect_system_info(cfg, i, o)
      [] c = "hardware" -> collect_hardware_metrics(cfg, i, o)
      [] c = "network" -> collect_network_metrics(cfg, i, o)
      [] c = "services" -> collect_service_status(cfg, i, o)
      [] OTHER -> collect_performance_metrics(cfg, i, o)

\* The number of writes of collector c when nothing fails.
NumStatements(c, cfg) ==
    CASE c = "system" -> 1
      [] c = "hardware" -> 4
      [] c = "network" -> 3 + Len(cfg.advanced_checks.network_ping_hosts)
      [] c = "services" -> 1 + Len(cfg.advanced_checks.services_to_monitor)
      [] OTHER -> 3

\* How the observation before the i-th write can end: "raise" is an
\* exception that reaches the collector's outer except clause, which logs
\* it and ends the collector; the others lead to a write (or to the skip
\* of a partition).
StepOutcomes(c, i) ==
    CASE c = "hardware" /\ i = 4 -> {"ok", "skip"}
      [] c = "network" /\ i > 3 -> {"ok", "except"}
      [] c = "services" /\ i > 1 -> {"ok", "timeout"}
      [] OTHER -> {"ok", "raise"}

\* thread.join() returns at once for a thread that was never alive.
JoinableIfStarted(t) == t.pc # "new"

\* thread.join() returns when the thread has terminated, normally or by
\* an exception.
Joinable(t) == t.pc \in {"terminated", "died"}

\* The state after SystemMetricsCollector(config_file): the config is
\* loaded, the metrics dict holds its six initial entries.
LocalInit ==
    /\ \E u \in UserConfigs :
         collector = [mainPc |-> "start",
                      config |-> LoadConfig(u),
                      metrics |-> InitialMetrics,
                      threads |-> [c \in Collectors |-> [pc |-> "new", log |-> <<>>]],
                      started |-> 0, joined |-> 0,
                      returned |-> EmptyDict, saved |-> EmptyDict]
    /\ monitor = [mainPc |-> "absent"]
    /\ prog = "local"
    /\ servers = Loaded(0)
    /\ creds = [h \in Hosts |-> Credentials(None, None)]
    /\ login = [h \in Hosts |-> None]
    /\ max_workers = 0
    /\ mainPc = "done"
    /\ submitted = 0
    /\ queue = <<>>
    /\ pc = [h \in Hosts |-> "unsubmitted"]
    /\ ssh = [h \in Hosts |-> "none"]
    /\ attempts = [h \in Hosts |-> 0]
    /\ conn = [h \in Hosts |-> "none"]
    /\ metrics = [h \in Hosts |-> EmptyDict]
    /\ raised = [h \in Hosts |-> FALSE]
    /\ answers = [h \in Hosts |-> <<>>]
    /\ warned = [h \in Hosts |-> {}]
    /\ yielded = {}
    /\ received = <<>>
    /\ output_file = <<>>
    /\ writing = {}
    /\ announced = [h \in Hosts |-> "none"]

\* lines 284-287: the next collector's thread is created and started.
StartThread ==
    /\ collector.mainPc = "start"
    /\ LET c == metric_collectors[collector.started + 1]
       IN  collector' =
             [collector EXCEPT
                !.threads[c].pc = "running",
                !.started = @ + 1,
                !.mainPc = IF collector.started + 1 = Len(metric_collectors)
                           THEN "join" ELSE "start"]
    /\ UNCHANGED <<remoteVars, monitor>>

\* One step of the thread of collector c: on entry it reads its flag (a
\* missing key raises outside the try block and kills the thread; a false
\* flag returns); then it executes its next write, or an exception takes
\* it to its except clause and it returns.
CollectorStep(c) ==
    /\ collector.mainPc \in {"start", "join", "returned", "saved"}
    /\ collector.threads[c].pc = "running"
    /\ LET cfg == collector.config
           i == Len(collector.threads[c].log) + 1
       IN  IF c \notin DOMAIN cfg.collectors
           THEN collector' = [collector EXCEPT !.threads[c].pc = "died"]
           ELSE IF ~cfg.collectors[c]
           THEN collector' = [collector EXCEPT !.threads[c].pc = "terminated"]
           ELSE \E o \in StepOutcomes(c, i) :
                  IF o = "raise"
                  THEN collector' = [collector EXCEPT !.threads[c].pc = "terminated"]
                  ELSE collector' =
                         [collector EXCEPT
                            !.metrics = Apply(@, Statement(c, cfg, i, o)),
                            !.threads[c].log = Append(@, o),
                            !.threads[c].pc = IF i = NumStatements(c, cfg)
                                              THEN "terminated" ELSE "running"]
    /\ UNCHANGED <<remoteVars, monitor>>

\* lines 290-291: join of the next thread, in the order of their start.
JoinThread ==
    /\ collector.mainPc = "join"
    /\ collector.joined < Len(metric_collectors)
    /\ Joinable(collector.threads[metric_collectors[collector.joined + 1]])
    /\ collector' = [collector EXCEPT !.joined = @ + 1]
    /\ UNCHANGED <<remoteVars, monitor>>

\* line 293: return self.metrics
ReturnMetrics ==
    /\ collector.mainPc = "join"
    /\ collector.joined = Len(metric_collectors)
    /\ collector' = [collector EXCEPT !.mainPc = "returned",
                                      !.returned = collector.metrics]
    /\ UNCHANGED <<remoteVars, monitor>>

\* main, lines 348-351: the metrics are printed and save_metrics dumps
\* self.metrics to a file, unless the write fails (lines 315-317).
SaveLocalMetrics ==
    /\ collector.mainPc = "returned"
    /\ \E ok \in BOOLEAN :
         collector' = [collector EXCEPT
                          !.mainPc = "saved",
                          !.saved = IF ok THEN collector.metrics ELSE None]
    /\ UNCHANGED <<remoteVars, monitor>>

LocalNext ==
    \/ StartThread
    \/ \E c \in Collectors : CollectorStep(c)
    \/ JoinThread
    \/ ReturnMetrics
    \/ SaveLocalMetrics

SpecLocal == LocalInit /\ [][LocalNext]_vars

-----------------------------------------------------------------------------
(* monitering.py: DevOpsMonitoringTool.  main starts continuous_monitoring *)
(* in a daemon thread and generates one report.  The object is the record  *)
(* "monitor": config, monitoring_results, report, mainPc, and the loop      *)
(* thread's pc, cycle, locals of the current cycle (sampled, server_status, *)
(* checks, alerts, warnings, delivery); built keeps the snapshots           *)
(* monitor_resources has built so far.                                      *)

\* Number of cycles of the monitoring loop that are followed.
MaxCycles == 2

\* config.yaml as read by __init__: not found (lines 33-35), or naming two
\* services and one server, with or without a Slack webhook.
MonitorConfigs ==
    {[services |-> <<>>, servers |-> <<>>, slack_webhook |-> None]}
    \cup {[services |-> <<"nginx", "mysql">>, servers |-> <<"10.0.0.1">>,
           slack_webhook |-> w] : w \in {None, <<"https://hooks.example">>}}

\* lines 40-44
alert_threshold == [cpu_usage |-> 80, memory_usage |-> 85, disk_usage |-> 90]

\* What psutil can report in one pass.
ResourceSamples ==
    {[cpu_usage |-> c, memory_usage |-> 40, disk_usage |-> 60] : c \in {50, 95}}

\* lines 104-109: the dict built from the readings of one pass
Snapshot(now, s) ==
    [timestamp |-> now, cpu_usage |-> s.cpu_usage,
     memory_usage |-> s.memory_usage, disk_usage |-> s.disk_usage]

StoreResultsInPlace(old, snap) == Put(old, "timestamp", snap.timestamp)

\* line 104: the new dict is bound to self.monitoring_results by one
\* assignment; the dict it replaces is not written to
StoreResults(old, snap) == snap

\* lines 112-119: the warnings logged for a pass
HighUsage(s) == {k \in DOMAIN alert_threshold : s[k] > alert_threshold[k]}

check_service_statusReraise(o) ==
    IF o = "raise" THEN "raised" ELSE IF o = "active" THEN "True" ELSE "False"

\* lines 75-85: True only for the answer 'active'; an exception is logged
\* and gives False.  o: how systemctl is-active ended.
check_service_status(o) == IF o = "active" THEN "True" ELSE "False"

\* lines 150-155: no post without a webhook; a post that raises is logged.
\* o: how requests.post ended.
send_alert(cfg, o) ==
    IF ~Truthy(cfg.slack_webhook) THEN "unconfigured"
    ELSE IF o = "ok" THEN "sent" ELSE "failed"

\* The state after DevOpsMonitoringTool('config.yaml').
MonitorInit ==
    /\ \E cfg \in MonitorConfigs :
         monitor = [mainPc |-> "start", config |-> cfg,
                    monitoring_results |-> EmptyDict, report |-> EmptyDict,
                    pc |-> "new", cycle |-> 0, sampled |-> EmptyDict,
                    server_status |-> EmptyDict, checks |-> <<>>,
                    alerts |-> <<>>, warnings |-> {}, delivery |-> "none",
                    built |-> {}]
    /\ collector = [mainPc |-> "absent"]
    /\ prog = "monitor"
    /\ servers = Loaded(0)
    /\ creds = [h \in Hosts |-> Credentials(None, None)]
    /\ login = [h \in Hosts |-> None]
    /\ max_workers = 0
    /\ mainPc = "done"
    /\ submitted = 0
    /\ queue = <<>>
    /\ pc = [h \in Hosts |-> "unsubmitted"]
    /\ ssh = [h \in Hosts |-> "none"]
    /\ attempts = [h \in Hosts |-> 0]
    /\ conn = [h \in Hosts |-> "none"]
    /\ metrics = [h \in Hosts |-> EmptyDict]
    /\ raised = [h \in Hosts |-> FALSE]
    /\ answers = [h \in Hosts |-> <<>>]
    /\ warned = [h \in Hosts |-> {}]
    /\ yielded = {}
    /\ received = <<>>
    /\ output_file = <<>>
    /\ writing = {}
    /\ announced = [h \in Hosts |-> "none"]

\* lines 194-198: the daemon thread is started; it enters the first cycle.
start_monitoring ==
    /\ monitor.mainPc = "start"
    /\ monitor' = [monitor EXCEPT !.mainPc = "report", !.pc = "sample",
                                  !.cycle = 1]
    /\ UNCHANGED <<remoteVars, collector>>

\* lines 182-188, main thread: get_system_info gives its dict or {} when
\* it fails; self.monitoring_results is read once.
generate_report ==
    /\ monitor.mainPc = "report"
    /\ \E info \in {EmptyDict, [hostname |-> <<"web01">>]} :
         monitor' = [monitor EXCEPT
                        !.mainPc = "idle",
                        !.report = [system_info |-> info,
                                    current_monitoring_results
                                        |-> monitor.monitoring_results]]
    /\ UNCHANGED <<remoteVars, collector>>

\* monitor_resources, lines 93-101: the three readings, or an exception
\* that the except clause logs (lines 121-122).
SampleResources ==
    /\ monitor.pc = "sample"
    /\ \/ \E s \in ResourceSamples :
            monitor' = [monitor EXCEPT !.pc = "store", !.sampled = s]
       \/ monitor' = [monitor EXCEPT !.pc = "ping"]
    /\ UNCHANGED <<remoteVars, collector>>

\* monitor_resources, lines 104-119: the snapshot is stored and the high
\* readings are logged.
StoreSnapshot ==
    /\ monitor.pc = "store"
    /\ LET snap == Snapshot(Now(monitor.cycle), monitor.sampled)
       IN  monitor' = [monitor EXCEPT
                          !.pc = "ping",
                          !.monitoring_results = StoreResults(@, snap),
                          !.built = @ \cup {snap},
                          !.warnings = HighUsage(monitor.sampled)]
    /\ UNCHANGED <<remoteVars, collector>>

\* ping_servers, lines 128-141: one entry per server; a ping that raises
\* counts as down.  Then the loop goes to the services.
PingServers ==
    /\ monitor.pc = "ping"
    /\ \E o \in [1..Len(monitor.config.servers) -> {"up", "down", "except"}] :
         monitor' = [monitor EXCEPT
                        !.server_status =
                            [i \in 1..Len(monitor.config.servers) |->
                                IF o[i] = "up" THEN <<"True">> ELSE <<"False">>],
                        !.pc = IF monitor.config.services = <<>>
                               THEN "sleep" ELSE "services"]
    /\ UNCHANGED <<remoteVars, collector>>

\* continuous_monitoring, lines 168-172: the next service is checked; if
\* it is not active the alert is logged and sent.  An exception leaving
\* check_service_status would end the thread.
CheckService ==
    /\ monitor.pc = "services"
    /\ LET i == Len(monitor.checks) + 1
           service == monitor.config.services[i]
           next == IF i = Len(monitor.config.services) THEN "sleep" ELSE "services"
       IN  \E o \in {"active", "inactive", "raise"}, post \in {"ok", "raise"} :
             LET status == check_service_status(o)
             IN  CASE status = "raised" ->
                        monitor' = [monitor EXCEPT !.pc = "dead"]
                   [] status = "True" ->
                        monitor' = [monitor EXCEPT !.checks = Append(@, o),
                                                   !.pc = next]
                   [] OTHER ->
                        monitor' = [monitor EXCEPT
                                       !.checks = Append(@, o),
                                       !.alerts = Append(@, service),
                                       !.delivery = send_alert(monitor.config, post),
                                       !.pc = next]
    /\ UNCHANGED <<remoteVars, collector>>

\* line 174 and the next turn of "while True": the locals of the cycle
\* are gone.
SleepThenNextCycle ==
    /\ monitor.pc = "sleep"
    /\ monitor.cycle < MaxCycles
    /\ monitor' = [monitor EXCEPT !.pc = "sample", !.cycle = @ + 1,
                                  !.sampled = EmptyDict,
                                  !.server_status = EmptyDict,
                                  !.checks = <<>>, !.alerts = <<>>,
                                  !.warnings = {}, !.delivery = "none"]
    /\ UNCHANGED <<remoteVars, collector>>

\* The steps of the monitoring thread.
continuous_monitoring ==
    \/ SampleResources
    \/ StoreSnapshot
    \/ PingServers
    \/ CheckService
    \/ SleepThenNextCycle

MonitorNext ==
    \/ start_monitoring
    \/ generate_report
    \/ continuous_monitoring

SpecMonitor == MonitorInit /\ [][MonitorNext]_vars

\* The monitoring thread is scheduled as long as it can take a step: the
\* main thread only sleeps, and each call made by the loop returns or raises.
SpecMonitorFair == SpecMonitor /\ WF_vars(continuous_monitoring)

-----------------------------------------------------------------------------
(* Properties *)

\* The reports handed to the sink for host h (CSV: key ip; JSON: hostname).
ReportsFor(h) ==
    {i \in 1..Len(received) :
        Get(received[i], IF IsCsv THEN "ip" ELSE "hostname", EmptyStr)
            = <<"ip", ToString(h)>>}

\* The 14 probe fields of the CSV report.
ProbeKeys == {RowKeys[j] : j \in 3..16}

ConnectFailed(h) == conn[h] \in {"auth", "unreachable", "timeout"}

\* C1: when collect_all_metrics has finished, the sink (_save_metrics) has
\* received exactly one report per host record: NumHosts in all, none lost
\* and none duplicated, for every max_workers in 1..NumHosts and every mix
\* of host outcomes.
C1_ExactlyOneReportPerHost ==
    (IsCsv /\ mainPc = "done") =>
        /\ Len(received) = NumHosts
        /\ \A h \in Hosts : Cardinality(ReportsFor(h)) = 1

\* A finished CSV run on fewer workers than hosts in which one host failed
\* to connect and another connected and had a probe command raise.
C1_Witness ==
    /\ IsCsv /\ mainPc = "done" /\ max_workers < NumHosts
    /\ \E h \in Hosts : ConnectFailed(h)
    /\ \E h \in Hosts : conn[h] = "ok" /\ \E i \in DOMAIN answers[h] : answers[h][i] = "raise"

\* C2: a host whose authentication fails yields a report with the
\* authentication-failed status in which every probe field is the ERROR
\* marker, and no exception escapes.
C2_AuthFailedAllFieldsError ==
    \A h \in Hosts :
        (IsCsv /\ pc[h] = "returned" /\ conn[h] = "auth") =>
            /\ ~raised[h]
            /\ metrics[h]["connection_status"] = <<"Authentication Failed">>
            /\ \A k \in ProbeKeys : Get(metrics[h], k, EmptyStr) = ERROR

\* C4: the output CSV starts with the 17-column header, written once, and
\* every later row has 17 fields, the field under each header column being
\* the value of that column's metric in a report the sink received.
ColumnKey ==
    [Timestamp |-> "timestamp", IP |-> "ip", Hostname |-> "hostname",
     Memory_Usage |-> "memory_usage", CPU_Usage |-> "cpu_usage",
     Disk_Usage |-> "disk_usage", Load_Average |-> "load_average",
     CPU_Min |-> "cpu_min", CPU_Max |-> "cpu_max", CPU_Average |-> "cpu_average",
     Base_Frequency |-> "base_frequency", Lowest_Frequency |-> "lowest_frequency",
     Highest_Frequency |-> "highest_frequency", CPU_Vendor |-> "cpu_vendor",
     Time_Sync_Status |-> "time_sync_status", Docker_Status |-> "docker_status",
     Connection_Status |-> "connection_status"]

C4_FixedSchema ==
    IsCsv =>
        /\ Len(output_file) >= 1
        /\ Len(output_file[1]) = 17
        /\ \A c \in 1..17 : output_file[1][c] = <<headers[c]>>
        /\ \A i \in 2..Len(output_file) :
            /\ output_file[i] # output_file[1]
            /\ Len(output_file[i]) = 17
            /\ \E j \in 1..Len(received) :
                \A c \in 1..17 :
                    output_file[i][c] = Get(received[j], ColumnKey[headers[c]], EmptyStr)

\* Two rows recorded: one of a host that failed to connect, one of a
\* connected host with a probe in error.
C4_Witness ==
    /\ IsCsv /\ Len(output_file) = 3
    /\ \E i \in 2..3 : output_file[i][17] = <<"Failed">> /\ output_file[i][3] = EmptyStr
    /\ \E i \in 2..3 : output_file[i][17] = <<"Success">> /\ output_file[i][6] = ERROR

\* C5: the number of sessions opened and not yet closed never exceeds
\* max_workers.
C5_OpenSessionsBounded == Cardinality(OpenSessions) <= max_workers

\* Fewer workers than hosts, every worker holding an open session, after
\* another host's collection ended on an error path.
C5_Witness ==
    /\ Cardinality(OpenSessions) = max_workers
    /\ max_workers < NumHosts
    /\ \E h \in Hosts : pc[h] = "returned" /\ ConnectFailed(h)

\* The dict a healthy connected host ends with.
HealthyDict(p, h) == Pipeline(p, OnConnected(p, InitDict(p, h)), AllOk(p)).metrics

\* The report fields probe command i fills (CSV).
CsvFieldsOf(i) ==
    CASE CsvCommands[i] = "sar" -> {"cpu_min", "cpu_max", "cpu_average"}
      [] CsvCommands[i] = "frequencies" -> {"lowest_frequency", "highest_frequency"}
      [] OTHER -> {CsvCommands[i]}

\* Probe command i of host h was executed and left its healthy value.
ProbeHealthy(h, i) ==
    /\ i <= Len(answers[h])
    /\ IF IsCsv
       THEN \A k \in CsvFieldsOf(i) :
                k \in DOMAIN metrics[h] /\ metrics[h][k] = HealthyDict(prog, h)[k]
       ELSE LET c == JsonCommands(prog)[i]
            IN  /\ c.key \in DOMAIN metrics[h][c.sect]
                /\ metrics[h][c.sect][c.key] = HealthyDict(prog, h)[c.sect][c.key]

\* Probe command i of host h is marked as failed in the report.
ProbeMarkedFailed(h, i) ==
    IF IsCsv
    THEN \A k \in CsvFieldsOf(i) : Get(metrics[h], k, EmptyStr) = ERROR
    ELSE LET c == JsonCommands(prog)[i]
         IN  c.key \notin DOMAIN metrics[h][c.sect] \/ metrics[h][c.sect][c.key] = None

\* The commands of host h that raised.
RaisedAt(h) == {i \in 1..Len(answers[h]) : answers[h][i] = "raise"}

\* C3: on a connected host whose pipeline has ended with exactly one probe
\* command having raised (all others answering healthily), every probe
\* was executed, every other probe's field holds its healthy value and the
\* failing probe is marked as failed; in the CSV collector and in both JSON
\* health checkers.
C3_ProbeIsolation ==
    \A h \in Hosts :
        (/\ pc[h] \in {"probed", "returned"}
         /\ conn[h] = "ok"
         /\ Cardinality(RaisedAt(h)) = 1
         /\ Unhealthy(h) = RaisedAt(h)) =>
            /\ Len(answers[h]) = NumCommands(prog)
            /\ \A i \in 1..NumCommands(prog) :
                IF i \in RaisedAt(h) THEN ProbeMarkedFailed(h, i) ELSE ProbeHealthy(h, i)

\* C6: a host whose pipeline run has returned has no open session.
C6_SessionClosedOnReturn ==
    \A h \in Hosts : pc[h] = "returned" => ssh[h] # "open"

\* A JSON health check that connected, hit an exception after the
\* connection was established, and returned with the session closed.
C6_Witness ==
    /\ prog = "json2"
    /\ pc[TheHost] = "returned"
    /\ conn[TheHost] = "ok"
    /\ "error" \in DOMAIN metrics[TheHost]
    /\ ssh[TheHost] = "closed"

\* Every probe name has an entry in the dict of host h.
FullReport(h) ==
    IF IsCsv THEN ProbeKeys \subseteq DOMAIN metrics[h]
    ELSE \A i \in 1..NumCommands(prog) :
            JsonCommands(prog)[i].key \in DOMAIN metrics[h][JsonCommands(prog)[i].sect]

\* C7: every report produced for a host, also for a host whose connection
\* failed, has an entry for every probe name, the entry being the ERROR
\* marker when the connection failed.
C7_NoSparseReports ==
    \A h \in Hosts :
        pc[h] = "returned" =>
            /\ FullReport(h)
            /\ (IsCsv /\ ConnectFailed(h)) =>
                    \A k \in ProbeKeys : metrics[h][k] = ERROR

\* C8: the run always terminates with a report for every host: whenever
\* no thread can take a step, the main thread is done and every host has
\* its report.
C8_RunTerminates ==
    \/ ENABLED Next
    \/ mainPc = "done" /\ \A h \in Hosts : ReportsFor(h) # {}

\* C9: every host record is attempted exactly once: at most one
\* client.connect call per host at any time, exactly one once its task has
\* started, and a failed connect ends the task with at most one report.
C9_AttemptedExactlyOnce ==
    \A h \in Hosts :
        /\ attempts[h] <= 1
        /\ pc[h] \notin {"unsubmitted", "queued"} => attempts[h] = 1
        /\ mainPc = "done" => attempts[h] = 1
        /\ ConnectFailed(h) =>
              pc[h] \in {"saving", "returned"} /\ Cardinality(ReportsFor(h)) <= 1

\* A finished run in which a host's only connect failed.
C9_Witness ==
    /\ mainPc = "done"
    /\ \E h \in Hosts : ConnectFailed(h) /\ attempts[h] = 1
    /\ \E h \in Hosts : conn[h] = "ok"

\* C10: a connection error on one host ends only that host's pipeline: no
\* exception reaches the scheduler, no other host's task is dropped, and
\* when the run is done every other host has been processed and recorded.
C10_FailureIsolation ==
    \A h \in Hosts :
        (pc[h] = "returned" /\ ConnectFailed(h)) =>
            /\ ~raised[h]
            /\ \A g \in Hosts \ {h} :
                /\ pc[g] = "queued" => \E i \in 1..Len(queue) : queue[i] = g
                /\ mainPc # "submit" => pc[g] # "unsubmitted"
                /\ mainPc = "done" =>
                     pc[g] = "returned" /\ g \in yielded /\ ReportsFor(g) # {}

\* A finished run in which one host failed to connect and another was
\* collected successfully afterwards.
C10_Witness ==
    /\ mainPc = "done"
    /\ ConnectFailed(1)
    /\ conn[2] = "ok" /\ ReportsFor(2) # {}
    /\ ReportsFor(1) # {}

\* C11: report writes are serialized per output file: at no time are two
\* writes to the same output file in progress, whatever the number of
\* workers and the order in which the tasks complete.  (CSV: every write
\* is made by the main thread; JSON: workers write, each to its host's
\* own file.)
C11_WritesSerialized ==
    \A w1 \in writing : \A w2 \in writing : w1.file = w2.file => w1 = w2

\* Two workers are inside save_report at the same time, each with its
\* host's report file open.
C11_Witness == prog = "json" /\ Cardinality(writing) = 2

\* The command of host h during which the connection was lost.
DroppedAt(h) == {i \in 1..Len(answers[h]) : answers[h][i] = "drop"}

\* Probe command i of host h is recorded with the error marker.
ProbeRecordedError(h, i) ==
    IF IsCsv
    THEN \A k \in CsvFieldsOf(i) : Get(metrics[h], k, EmptyStr) = ERROR
    ELSE LET c == JsonCommands(prog)[i]
         IN  c.key \in DOMAIN metrics[h][c.sect] /\ metrics[h][c.sect][c.key] = None

\* C12: when the connection is lost during a probe command, no later
\* command of the pipeline is executed on it, and every probe from that
\* one on is recorded in the report with the error marker.
C12_DropShortCircuits ==
    \A h \in Hosts :
        (pc[h] \in {"probed", "returned"} /\ DroppedAt(h) # {}) =>
            \A d \in DroppedAt(h) :
                /\ Len(answers[h]) = d
                /\ \A i \in d..NumCommands(prog) : ProbeRecordedError(h, i)

\* The probe fields of the CSV report present in the dict of host h are the
\* first ones in column order: probe fields are filled in the order of
\* the report's columns.
FilledInColumnOrder(h) ==
    \A j \in 3..16 :
        RowKeys[j] \in DOMAIN metrics[h] =>
            \A k \in 3..j : RowKeys[k] \in DOMAIN metrics[h]

\* One more command has been executed for host h: on the session opened
\* by the task's one connect call, after all commands executed before.
OneMoreCommand(h) ==
    /\ Len(answers'[h]) = Len(answers[h]) + 1
    /\ SubSeq(answers'[h], 1, Len(answers[h])) = answers[h]
    /\ pc[h] = "connected"
    /\ ssh[h] \in {"open", "lost"}
    /\ attempts[h] = 1
    /\ attempts'[h] = 1

\* C13: within one host the probe commands are executed one at a time,
\* each after all earlier ones, in the fixed order of the report's probe
\* fields, all on the session the task opened; no second connection is
\* opened for the host.
C13_SequentialOnOneSession ==
    /\ [](\A h \in Hosts : attempts[h] <= 1 /\ (IsCsv => FilledInColumnOrder(h)))
    /\ [][\A h \in Hosts : answers'[h] # answers[h] => OneMoreCommand(h)]_vars

\* A CSV pipeline that ran all its commands on its session, one of them
\* raising.
C13_Witness ==
    /\ IsCsv /\ pc[TheHost] = "probed"
    /\ Len(answers[TheHost]) = Len(CsvCommands)
    /\ RaisedAt(TheHost) # {}
    /\ attempts[TheHost] = 1

C15_NoHostsIsFatal ==
    (servers.state = "unreadable" \/ (servers.state = "loaded" /\ servers.rows = 0)) =>
        /\ mainPc \in {"raised", "aborted"}
        /\ \A h \in Hosts : attempts[h] = 0 /\ ssh[h] = "none"
        /\ received = <<>>
        /\ writing = {}
        /\ IsCsv => mainPc = "raised" /\ output_file \in {<<>>, PreviousOutput}

\* The top-level keys of the JSON health report.
TopLevelKeys == {"timestamp", "hostname", "system", "resources", "services", "network"}

\* The probes of host h that failed or were not run.
FailedOrNotRun(h) ==
    {i \in 1..NumCommands(prog) :
        i > Len(answers[h]) \/ answers[h][i] \in {"raise", "drop"}}

\* C16: the JSON health report returned for a host always has the
\* top-level keys timestamp, hostname, system, resources, services and
\* network, and every probe that failed or was not run, those after a
\* failing probe included, is present under its key with the error marker.
C16_JsonNothingOmitted ==
    \A h \in Hosts :
        (~IsCsv /\ pc[h] = "returned") =>
            /\ TopLevelKeys \subseteq DOMAIN metrics[h]
            /\ \A i \in FailedOrNotRun(h) : ProbeRecordedError(h, i)

\* The commands of host h that returned with a stdout other than the
\* healthy one: empty, or with a line that is not a number (sar).
OddAt(h) == {i \in 1..Len(answers[h]) : answers[h][i] = "odd"}

\* C17: in the CSV collector a probe whose command returns with an empty
\* or malformed stdout is recorded as ERROR, whichever probe it is; in
\* particular a CPU frequency probe that yields no lines gives
\* lowest_frequency = highest_frequency = ERROR.
C17_MalformedStdoutIsError ==
    \A h \in Hosts :
        IsCsv => \A i \in OddAt(h) :
                    \A k \in CsvFieldsOf(i) : Get(metrics[h], k, EmptyStr) = ERROR

\* The commands of host h that succeeded with a non-empty stderr.
WarnAt(h) == {i \in 1..Len(answers[h]) : answers[h][i] = "warn"}

StatusOf(h) == Get(metrics[h], "connection_status", EmptyStr)

\* C19: the connection_status of a CSV report is Success exactly when the
\* connect succeeded, and otherwise names the kind of failure: reports of
\* hosts whose connects ended differently (authentication failure,
\* unreachable, timeout) carry different statuses.
C19_StatusIdentifiesOutcome ==
    IsCsv =>
        \A h \in Hosts :
            pc[h] = "returned" =>
                /\ StatusOf(h) = <<"Success">> <=> conn[h] = "ok"
                /\ \A g \in Hosts :
                    (pc[g] = "returned" /\ conn[g] # conn[h])
                        => StatusOf(g) # StatusOf(h)

\* The pipelines of hosts h and g have both ended, and the two hosts gave
\* the same answers: to the connect and to every command.
SameCannedOutput(h, g) ==
    /\ pc[h] \in {"probed", "blocked", "saving", "returned"}
    /\ pc[g] \in {"probed", "blocked", "saving", "returned"}
    /\ conn[h] = conn[g]
    /\ answers[h] = answers[g]

\* The fields of a report that name the host or the time of the run.
EnvelopeKeys == IF IsCsv THEN {"timestamp", "ip"} ELSE {"timestamp", "hostname"}

C21_AnnouncementFaithful ==
    \A h \in Hosts :
        (prog = "json" /\ announced[h] # "none") =>
            /\ announced[h] = "completed" =>
                    conn[h] = "ok" /\ "error" \notin DOMAIN metrics[h]
            /\ ConnectFailed(h) => announced[h] = "failed"

\* The handles open on the collector's output file.
SinkHandles == {w \in writing : w.file = ReportFile("csv", w.host)}

\* C22: the output file of the CSV collector is opened once per run and
\* stays open until the run is complete: a step closes the handle only
\* when it ends the run, and no step opens the file once a report has
\* been handed over for recording.
C22_SinkOpenedOncePerRun ==
    [][IsCsv =>
         /\ (SinkHandles # {} /\ SinkHandles' = {}) => mainPc' = "done"
         /\ (SinkHandles = {} /\ SinkHandles' # {}) => received = <<>>]_vars

\* The report of host h is that of a returned CSV task that connected.
CsvSuccessReport(h) ==
    /\ IsCsv
    /\ pc[h] = "returned"
    /\ Get(metrics[h], "connection_status", EmptyStr) = <<"Success">>

\* C23: in the CSV collector a report whose connection_status is
\* "Success" has all 14 probe fields, hostname through docker_status, in
\* the metrics dict; a field whose command raised holds "ERROR", a field
\* whose command answered healthily holds the value taken from its
\* output, and no probe column of the row written for the report is the
\* blank that stands for a missing key.
C23_SuccessReportComplete ==
    \A h \in Hosts :
        CsvSuccessReport(h) =>
            /\ ProbeKeys \subseteq DOMAIN metrics[h]
            /\ Len(answers[h]) = NumCommands(prog)
            /\ \A i \in 1..Len(answers[h]) :
                 /\ answers[h][i] \in {"raise", "drop"} => ProbeRecordedError(h, i)
                 /\ answers[h][i] \in {"ok", "warn"} => ProbeHealthy(h, i)
            /\ \A j \in 3..16 :
                 /\ RowKeys[j] \in DOMAIN metrics[h]
                 /\ RowOf(metrics[h])[j] = metrics[h][RowKeys[j]]

\* A returned report of a connected host one of whose commands raised.
C23_Witness ==
    /\ CsvSuccessReport(TheHost)
    /\ RaisedAt(TheHost) # {}
    /\ \E k \in ProbeKeys : metrics[TheHost][k] = ERROR
    /\ \E k \in ProbeKeys : metrics[TheHost][k] # ERROR

SarKeys == {"cpu_min", "cpu_max", "cpu_average"}

\* The sar statistics of host h recorded as exactly "ERROR".
SarErrors(h) == {k \in SarKeys : Get(metrics[h], k, EmptyStr) = ERROR}

\* The position of the sar probe in the pipeline.
SarIndex == CHOOSE i \in 1..Len(CsvCommands) : CsvCommands[i] = "sar"

\* C24: in the CSV collector the three sar statistics are all-or-nothing:
\* once the sar probe step is over, cpu_min, cpu_max and cpu_average are
\* all three present, and either all three are exactly "ERROR" or none of
\* them is, whatever the sar command gave (an exception, no output, a
\* non-numeric line, numeric lines).
C24_SarAllOrNothing ==
    \A h \in Hosts :
        IsCsv =>
            /\ SarErrors(h) \in {{}, SarKeys}
            /\ (Len(answers[h]) >= SarIndex /\ answers[h][SarIndex] # "hang")
                    => SarKeys \subseteq DOMAIN metrics[h]

\* A returned report whose sar command gave no output or a non-numeric
\* line, all three statistics being "ERROR".
C24_Witness ==
    /\ IsCsv
    /\ pc[TheHost] = "returned"
    /\ Len(answers[TheHost]) >= SarIndex
    /\ answers[TheHost][SarIndex] = "odd"
    /\ SarErrors(TheHost) = SarKeys

\* C25: in the CSV collector a host's report is handed to _save_metrics,
\* and its row written, only after the host's task has completed; when
\* collect_all_metrics has returned (the point where main prints that the
\* collection is complete) every submitted task has completed, the report
\* of every host has been handed to _save_metrics and no call of
\* _save_metrics is still under way.
C25_CompleteOnlyWhenAllRecorded ==
    IsCsv =>
        /\ \A h \in Hosts :
             (\/ h \in yielded
              \/ ReportsFor(h) # {}
              \/ \E w \in writing : w.host = h) => pc[h] = "returned"
        /\ \A j \in 2..Len(output_file) :
             \E h \in Hosts : pc[h] = "returned" /\ output_file[j] = RowOf(metrics[h])
        /\ mainPc = "done" =>
             /\ submitted = servers.rows
             /\ \A h \in Hosts : pc[h] = "returned" /\ ReportsFor(h) # {}
             /\ writing = {}

\* A complete run on fewer workers than hosts, every row written.
C25_Witness ==
    /\ IsCsv
    /\ mainPc = "done"
    /\ max_workers < NumHosts
    /\ Len(output_file) = NumHosts + 1
    /\ \E h \in Hosts : ConnectFailed(h)

\* The threads of the local collectors that have ended.
Ended(c) == collector.threads[c].pc \in {"terminated", "died"}

\* The collector was enabled and an exception ended it before its last
\* write.
CutShort(c) ==
    /\ c \in DOMAIN collector.config.collectors
    /\ collector.config.collectors[c]
    /\ collector.threads[c].pc = "terminated"
    /\ Len(collector.threads[c].log) < NumStatements(c, collector.config)

\* C26: system_metrics_collector.py's collect_all_metrics starts the five
\* collectors as threads and returns only when all five have terminated,
\* also when a collector raises or is disabled; nothing is written to the
\* metrics dict after the return.
C26_ReturnsAfterAllThreads ==
    collector.mainPc \in {"returned", "saved"} =>
        /\ collector.started = Len(metric_collectors)
        /\ collector.joined = Len(metric_collectors)
        /\ \A c \in Collectors : Ended(c)
        /\ collector.metrics = collector.returned

\* The metrics were returned and saved; one thread had died of an
\* exception outside its try block, one collector was cut short by an
\* exception after its first write, one ran to its end.
C26_Witness ==
    /\ collector.mainPc = "saved"
    /\ \E c \in Collectors : collector.threads[c].pc = "died"
    /\ \E c \in Collectors : CutShort(c) /\ collector.threads[c].log # <<>>
    /\ \E c \in Collectors :
         Len(collector.threads[c].log) = NumStatements(c, collector.config)

\* The writes recorded in a collector's log, executed in order from i on.
RECURSIVE RunLog(_, _, _, _, _)
RunLog(m, c, cfg, log, i) ==
    IF i > Len(log) THEN m
    ELSE RunLog(Apply(m, Statement(c, cfg, i, log[i])), c, cfg, log, i + 1)

\* The collectors from the k-th on run one after the other, each doing
\* the writes it has done so far.
RECURSIVE RunInOrder(_, _)
RunInOrder(m, k) ==
    IF k > Len(metric_collectors) THEN m
    ELSE RunInOrder(RunLog(m, metric_collectors[k], collector.config,
                           collector.threads[metric_collectors[k]].log, 1),
                    k + 1)

Disabled(c) ==
    c \in DOMAIN collector.config.collectors /\ ~collector.config.collectors[c]

\* C27: each of the five local collectors writes only its own top-level
\* section of the metrics dict: a step changes a section only if it is a
\* step of that section's collector, the timestamp and the set of
\* top-level keys never change, a disabled collector leaves its section
\* the initial empty mapping, and the metrics are what the collectors'
\* writes give when run one collector after the other, whatever the
\* interleaving was.
C27_CollectorsWriteOwnSection ==
    /\ [](collector.mainPc # "absent" =>
            /\ DOMAIN collector.metrics = DOMAIN InitialMetrics
            /\ collector.metrics.timestamp = InitialMetrics.timestamp
            /\ \A c \in Collectors : Disabled(c) => collector.metrics[c] = EmptyDict
            /\ collector.metrics = RunInOrder(InitialMetrics, 1))
    /\ [][\A k \in DOMAIN collector.metrics :
            collector'.metrics[k] # collector.metrics[k] =>
                /\ k \in Collectors
                /\ collector'.threads[k] # collector.threads[k]
                /\ \A c \in Collectors \ {k} :
                     collector'.threads[c] = collector.threads[c]]_vars

\* The metrics were returned after a run with one collector disabled and
\* the four others having done all their writes.
C27_Witness ==
    /\ collector.mainPc = "returned"
    /\ \E d \in Collectors :
         /\ Disabled(d)
         /\ collector.metrics[d] = EmptyDict
         /\ \A c \in Collectors \ {d} :
              /\ Len(collector.threads[c].log) = NumStatements(c, collector.config)
              /\ collector.metrics[c] # EmptyDict

\* The keys of a complete resource snapshot.
SnapshotKeys == {"timestamp", "cpu_usage", "memory_usage", "disk_usage"}

\* d is the empty mapping or the complete snapshot built by one pass of
\* monitor_resources.
EmptyOrOnePass(d) ==
    \/ DOMAIN d = {}
    \/ DOMAIN d = SnapshotKeys /\ d \in monitor.built

\* C28: in monitering.py, with the monitoring thread running, the
\* 'current_monitoring_results' of the report generate_report returns is
\* either the empty mapping or a complete snapshot (timestamp, cpu_usage,
\* memory_usage, disk_usage) built by one single pass of
\* monitor_resources, never a partial or mixed one; the same holds for
\* self.monitoring_results whenever it could be read.
C28_ReportSnapshotWhole ==
    monitor.mainPc # "absent" =>
        /\ EmptyOrOnePass(monitor.monitoring_results)
        /\ monitor.mainPc = "idle" =>
                EmptyOrOnePass(monitor.report.current_monitoring_results)

\* The report was generated during the second cycle, after the second
\* snapshot was stored, the two passes having read different values.
C28_Witness ==
    /\ monitor.mainPc = "idle"
    /\ monitor.cycle = 2
    /\ Cardinality(monitor.built) = 2
    /\ \E a, b \in monitor.built : a.cpu_usage # b.cpu_usage
    /\ DOMAIN monitor.report.current_monitoring_results = SnapshotKeys
    /\ monitor.report.current_monitoring_results.timestamp = Now(2)

\* The services for which the checks made so far in this cycle call for
\* an alert, in the order of the checks.
RECURSIVE AlertsDue(_)
AlertsDue(n) ==
    IF n = 0 THEN <<>>
    ELSE IF monitor.checks[n] = "active" THEN AlertsDue(n - 1)
    ELSE Append(AlertsDue(n - 1), monitor.config.services[n])

\* C29: the continuous monitoring loop of monitering.py is never ended by
\* a failure: the thread never dies; in each cycle an alert is raised for
\* every service that is not active (a status check that raises counts as
\* not active) and for no active one, and a cycle ends only with every
\* service checked; a failure of the resource sampling, of a ping, of a
\* service check or of an alert delivery keeps neither the cycle from
\* completing nor the next cycle from starting.
C29_LoopSurvivesFailures ==
    /\ [](monitor.mainPc # "absent" =>
            /\ monitor.pc # "dead"
            /\ monitor.alerts = AlertsDue(Len(monitor.checks))
            /\ monitor.pc = "sleep" =>
                    Len(monitor.checks) = Len(monitor.config.services))
    /\ \A k \in 1..MaxCycles :
         (monitor.cycle = k) ~> (monitor.cycle = k /\ monitor.pc = "sleep")
    /\ \A k \in 1..(MaxCycles - 1) :
         (monitor.cycle = k) ~> (monitor.cycle = k + 1)

\* The second cycle has completed although the first one's and its own
\* sampling failed, its ping failed, its first service check raised and
\* the alert could not be delivered, its second service being active.
C29_Witness ==
    /\ monitor.cycle = 2
    /\ monitor.pc = "sleep"
    /\ monitor.built = {}
    /\ monitor.server_status = <<(<<"False">>)>>
    /\ monitor.checks = <<"raise", "active">>
    /\ monitor.alerts = <<"nginx">>
    /\ monitor.delivery = "failed"

====
